---------------------------- MODULE Spec2Model ----------------------------
(***************************************************************************)
(* A model of src/tile.rs of rusterize: the 8x8 Tile with its coverage     *)
(* mask (TileMask), the bit iterator over the mask (TileMaskIter), the     *)
(* lane index (TileIndex), the 2x2 composition Quad and the 32x32          *)
(* TileGroup.                                                              *)
(*                                                                         *)
(* Numbers.  An f32 is a fixed-point integer.  Barycentric weights and     *)
(* vertex depths are counted in units of 1/One, products of two of them    *)
(* (the interpolated depth, the depth buffer) in units of 1/(One*One), so  *)
(* that the arithmetic of the inputs drawn below is exact.  A float's sign *)
(* bit is the sign of the integer: the model has no -0.0 and no NaN.  A    *)
(* u32 coordinate is an integer; the inputs stay far from 2^32.            *)
(*                                                                         *)
(* A u64 mask is the set of its set bits, a subset of 0..63: bit i of the  *)
(* mask is set iff i is in the set.                                        *)
(***************************************************************************)
EXTENDS Integers, Sequences, FiniteSets

\* ------------------------------------------------------------- constants
Lanes == 64
TileSize == 8
One == 64

\* ---------------------------------------------------------------- bounds
MaxOps == 2
MaxStride == 2
MaxCoord == 9
MaxOrigin == 2

LaneSet == 0 .. (Lanes - 1)
DOne == One * One
Pixels == 0 .. 3
None == [none |-> TRUE]

Sgn(n) == IF n < 0 THEN -1 ELSE 1
Abs(n) == IF n < 0 THEN -n ELSE n
Min(S) == CHOOSE m \in S : \A n \in S : m <= n

\* -------------------------------------------------- f32x8x8 (crate-local)
\* broadcast(x): all 64 lanes hold x.
broadcast(x) == [i \in LaneSet |-> x]

\* to_bit_u32x8x8().bitmask(): bit i is the sign bit of lane i.
bitmask(g) == {i \in LaneSet : g[i] < 0}

\* d.replace(other, mask): lanes of the mask take other's value.
replace(d, other, mask) == [i \in LaneSet |-> IF i \in mask THEN other[i] ELSE d[i]]

\* ------------------------------------------------ Barycentric (crate root)
Cross(p, q) == p[1] * q[2] - p[2] * q[1]
Sub2(p, q) == <<p[1] - q[1], p[2] - q[2]>>
Add2(p, q) == <<p[1] + q[1], p[2] + q[2]>>

\* The weights (u, v) of p for the triangle (a, b, c): p = a + u(b-a) + v(c-a).
BaryCoordinate(bary, p) ==
    LET D == Cross(Sub2(bary.b, bary.a), Sub2(bary.c, bary.a))
        U == Cross(Sub2(p, bary.a), Sub2(bary.c, bary.a))
        V == Cross(Sub2(bary.b, bary.a), Sub2(p, bary.a))
    IN  [u |-> (U * Sgn(D) * One) \div Abs(D), v |-> (V * Sgn(D) * One) \div Abs(D)]

\* The sample point of lane i of the tile at pos with spacing scale.
LanePoint(pos, scale, i) == <<pos[1] + scale[1] * (i % TileSize), pos[2] + scale[2] * (i \div TileSize)>>

coordinate_f32x8x8(bary, pos, scale) ==
    [u |-> [i \in LaneSet |-> BaryCoordinate(bary, LanePoint(pos, scale, i)).u],
     v |-> [i \in LaneSet |-> BaryCoordinate(bary, LanePoint(pos, scale, i)).v]]

\* ----------------------------------------- Interpolate, Fragment, Mapping
\* Interpolate::interpolate(t, w): the weighted mean of the vertex attributes.
Interpolate(t, w) == (w[1] * t[1] + w[2] * t[2] + w[3] * t[3]) \div One

\* A shader: fragment() returns the interpolated attribute as the pixel.
fragment(sh, frag) == frag % 4

blend(sh, dst, new) == IF sh = "replace" THEN new ELSE (dst + new) % 4

mapping(f, s) == IF f = "inc" THEN (s + 1) % 4 ELSE (3 - s)

\* ---------------------------------------------------------------- TileMask
uv_of(u, v) == [i \in LaneSet |-> One - (u[i] + v[i])]

TileMask_new(pos, scale, bary) ==
    LET c == coordinate_f32x8x8(bary, pos, scale)
        uv == uv_of(c.u, c.v)
        mask == LaneSet \ (bitmask(uv) \cup bitmask(c.u) \cup bitmask(c.v))
    IN  [u |-> c.u, v |-> c.v, mask |-> mask]

\* weights.dot(z) of mask_with_depth, in units of 1/(One*One).
InterpolatedDepth(tm, z) ==
    LET uv == uv_of(tm.u, tm.v)
    IN  [i \in LaneSet |-> uv[i] * z[1] + tm.u[i] * z[2] + tm.v[i] * z[3]]

\* Faulty variants of mask_with_depth: the depth test as "closer or equal"; no depth
\* test; no near-plane test; the depth written before the near-plane test.
mask_with_depth_lequal(tm, z, d) ==
    LET depth == InterpolatedDepth(tm, z)
        m1 == tm.mask \ bitmask([i \in LaneSet |-> d[i] - depth[i]])
        m2 == m1 \ bitmask([i \in LaneSet |-> DOne + depth[i]])
    IN  [tm |-> [tm EXCEPT !.mask = m2], d |-> replace(d, depth, m2)]

mask_with_depth_nodepth(tm, z, d) ==
    LET depth == InterpolatedDepth(tm, z)
        m2 == tm.mask \ bitmask([i \in LaneSet |-> DOne + depth[i]])
    IN  [tm |-> [tm EXCEPT !.mask = m2], d |-> replace(d, depth, m2)]

mask_with_depth_nonear(tm, z, d) ==
    LET depth == InterpolatedDepth(tm, z)
        m1 == tm.mask \cap bitmask([i \in LaneSet |-> depth[i] - d[i]])
    IN  [tm |-> [tm EXCEPT !.mask = m1], d |-> replace(d, depth, m1)]

mask_with_depth_noclamp(tm, z, d) ==
    LET depth == InterpolatedDepth(tm, z)
        m1 == tm.mask \cap bitmask([i \in LaneSet |-> depth[i] - d[i]])
    IN  [tm |-> [tm EXCEPT !.mask = m1 \ bitmask([i \in LaneSet |-> DOne + depth[i]])],
         d |-> replace(d, depth, m1)]

\* self.mask and the depth buffer d after mask_with_depth(z, d).
mask_with_depth(tm, z, d) ==
    LET depth == InterpolatedDepth(tm, z)
        m1 == tm.mask \cap bitmask([i \in LaneSet |-> depth[i] - d[i]])
        m2 == m1 \ bitmask([i \in LaneSet |-> DOne + depth[i]])
    IN  [tm |-> [tm EXCEPT !.mask = m2], d |-> replace(d, depth, m2)]

TileMask_iter(tm) == [u |-> tm.u, v |-> tm.v, mask |-> tm.mask]

\* --------------------------------------------------------------- TileIndex
TileIndex_from_xy(x, y) == x * 8 + y
TileIndex_x(i) == i % 8
TileIndex_y(i) == i \div 8

\* ------------------------------------------------------------ TileMaskIter
\* u64::trailing_zeros: the index of the lowest set bit, 64 for 0.
trailing_zeros(mask) == IF mask = {} THEN Lanes ELSE Min(mask)

\* Faulty variant of next(): clears the yielded bit and its upper neighbour.
TileMaskIter_next_clear2(it) ==
    IF it.mask = {} THEN [item |-> None, it |-> it]
    ELSE LET next == trailing_zeros(it.mask)
         IN  [item |-> [none |-> FALSE, index |-> next,
                        w |-> <<One - (it.u[next] + it.v[next]), it.u[next], it.v[next]>>],
              it |-> [it EXCEPT !.mask = it.mask \ {next, next + 1}]]

\* next(): the item returned and the iterator afterwards.
TileMaskIter_next(it) ==
    IF it.mask = {} THEN [item |-> None, it |-> it]
    ELSE LET next == trailing_zeros(it.mask)
         IN  [item |-> [none |-> FALSE, index |-> next,
                        w |-> <<One - (it.u[next] + it.v[next]), it.u[next], it.v[next]>>],
              it |-> [it EXCEPT !.mask = it.mask \ {next}]]

\* The items of `for (i, w) in mask.iter()`, in the order they come.
RECURSIVE IterItems(_)
IterItems(it) ==
    LET r == TileMaskIter_next(it)
    IN  IF r.item.none THEN <<>> ELSE <<r.item>> \o IterItems(r.it)

\* -------------------------------------------------------------------- Tile
Tile_new(p) == [depth |-> broadcast(DOne), color |-> [i \in LaneSet |-> p]]

Tile_size == TileSize

\* The loop body of raster over the items, in order.
RECURSIVE ShadeItems(_, _, _, _)
ShadeItems(color, items, t, sh) ==
    IF items = <<>> THEN color
    ELSE LET it == Head(items)
             new == fragment(sh, Interpolate(t, it.w))
         IN  ShadeItems([color EXCEPT ![it.index] = blend(sh, color[it.index], new)],
                        Tail(items), t, sh)

\* Faulty variant of raster: shades the lanes of the coverage mask.
Tile_raster_cover(tile, pos, scale, z, bary, t, sh) ==
    LET m0 == TileMask_new(pos, scale, bary)
    IN  IF m0.mask = {} THEN [tile |-> tile, calls |-> <<>>, cover |-> m0]
        ELSE LET md == mask_with_depth(m0, z, tile.depth)
                 items == IterItems(TileMask_iter(m0))
             IN  [tile |-> [depth |-> md.d, color |-> ShadeItems(tile.color, items, t, sh)],
                  calls |-> [k \in 1 .. Len(items) |-> items[k].index],
                  cover |-> m0]

\* raster(): the tile afterwards, the lanes the shader was called on, in
\* order, and the TileMask as TileMask::new returned it.
Tile_raster(tile, pos, scale, z, bary, t, sh) ==
    LET m0 == TileMask_new(pos, scale, bary)
    IN  IF m0.mask = {} THEN [tile |-> tile, calls |-> <<>>, cover |-> m0]
        ELSE LET md == mask_with_depth(m0, z, tile.depth)
                 items == IterItems(TileMask_iter(md.tm))
             IN  [tile |-> [depth |-> md.d, color |-> ShadeItems(tile.color, items, t, sh)],
                  calls |-> [k \in 1 .. Len(items) |-> items[k].index],
                  cover |-> m0]

Tile_clear(tile, p) == [depth |-> broadcast(DOne), color |-> [i \in LaneSet |-> p]]

\* write(): the sink's put calls after the 64 of this tile, lane 0 first.
Tile_write(tile, x, y, sink) ==
    sink \o [k \in 1 .. Lanes |->
                [x |-> x + TileIndex_x(k - 1), y |-> y + TileIndex_y(k - 1), v |-> tile.color[k - 1]]]

\* Faulty variant of map: maps the destination's own colors.
Tile_map_self(tile, src, f) == [tile EXCEPT !.color = [i \in LaneSet |-> mapping(f, tile.color[i])]]

Tile_map(tile, src, f) == [tile EXCEPT !.color = [i \in LaneSet |-> mapping(f, src.color[i])]]


\* -------------------------------------------------------------------- Quad
\* A unit of level 0 is a Tile; a unit of level n > 0 is a Quad of four units
\* of level n - 1, a sequence <<q[1], q[2], q[3], q[4]>> for self.0[0..3].
RECURSIVE Size(_)
Size(level) == IF level = 0 THEN Tile_size ELSE 2 * Size(level - 1)

RECURSIVE UnitNew(_, _)
UnitNew(level, p) ==
    IF level = 0 THEN Tile_new(p)
    ELSE LET t == UnitNew(level - 1, p) IN <<t, t, t, t>>

RECURSIVE UnitRaster(_, _, _, _, _, _, _, _)
Quad_raster(q, level, pos, scale, z, bary, t, sh) ==
    LET cs == Size(level - 1)
        tsize == <<scale[1] * cs, scale[2] * cs>>
    IN  <<UnitRaster(q[1], level - 1, pos, scale, z, bary, t, sh),
          UnitRaster(q[2], level - 1, Add2(pos, <<tsize[1], 0>>), scale, z, bary, t, sh),
          UnitRaster(q[3], level - 1, Add2(pos, <<0, tsize[2]>>), scale, z, bary, t, sh),
          UnitRaster(q[4], level - 1, Add2(pos, tsize), scale, z, bary, t, sh)>>

UnitRaster(n, level, pos, scale, z, bary, t, sh) ==
    IF level = 0 THEN Tile_raster(n, pos, scale, z, bary, t, sh).tile
    ELSE Quad_raster(n, level, pos, scale, z, bary, t, sh)

RECURSIVE UnitClear(_, _, _)
Quad_clear(q, level, p) == [k \in 1 .. 4 |-> UnitClear(q[k], level - 1, p)]

UnitClear(n, level, p) ==
    IF level = 0 THEN Tile_clear(n, p) ELSE Quad_clear(n, level, p)

RECURSIVE UnitWrite(_, _, _, _, _)
\* Faulty variant of Quad::write: the third child is written at the second's place.
Quad_write_dup(q, level, x, y, sink) ==
    LET tsize == Size(level - 1)
        s1 == UnitWrite(q[1], level - 1, x, y, sink)
        s2 == UnitWrite(q[2], level - 1, x + tsize, y, s1)
        s3 == UnitWrite(q[3], level - 1, x + tsize, y, s2)
    IN  UnitWrite(q[4], level - 1, x + tsize, y + tsize, s3)

Quad_write(q, level, x, y, sink) ==
    LET tsize == Size(level - 1)
        s1 == UnitWrite(q[1], level - 1, x, y, sink)
        s2 == UnitWrite(q[2], level - 1, x + tsize, y, s1)
        s3 == UnitWrite(q[3], level - 1, x, y + tsize, s2)
    IN  UnitWrite(q[4], level - 1, x + tsize, y + tsize, s3)

UnitWrite(n, level, x, y, sink) ==
    IF level = 0 THEN Tile_write(n, x, y, sink) ELSE Quad_write(n, level, x, y, sink)

RECURSIVE UnitMap(_, _, _, _)
Quad_map(q, src, level, f) == [k \in 1 .. 4 |-> UnitMap(q[k], src[k], level - 1, f)]

UnitMap(n, src, level, f) ==
    IF level = 0 THEN Tile_map(n, src, f) ELSE Quad_map(n, src, level, f)

\* --------------------------------------------------------------- TileGroup
\* tiles: Quad<Quad<Tile<P>>>, a unit of level 2.
GroupLevel == 2

TileGroup_new(p) == [tiles |-> UnitNew(GroupLevel, p)]
TileGroup_write(g, x, y, sink) == Quad_write(g.tiles, GroupLevel, x, y, sink)
TileGroup_raster(g, pos, scale, z, bary, t, sh) ==
    [tiles |-> Quad_raster(g.tiles, GroupLevel, pos, scale, z, bary, t, sh)]
TileGroup_clear(g, p) == [tiles |-> Quad_clear(g.tiles, GroupLevel, p)]
TileGroup_map(g, src, f) == [tiles |-> Quad_map(g.tiles, src.tiles, GroupLevel, f)]

\* ================================================================== state
VARIABLES
    tile,       \* SpecTile: the Tile<P> under test
    prev,       \* SpecTile: the tile before the last operation
    hist,       \* SpecTile: the operations so far, each with its arguments
    src,        \* SpecTile: the source Tile<S> of map
    iter,       \* SpecIter: the TileMaskIter
    mask0,      \* SpecIter: the mask the iterator was made from
    yielded,    \* SpecIter: the TileIndex values next() returned so far
    gotNone,    \* SpecIter: next() has returned None
    index,      \* SpecIndex: the last TileIndex built, with how it was built
    group,      \* SpecGroup: the TileGroup<P> under test
    gprev,      \* SpecGroup: the group before the last operation
    gsrc,       \* SpecGroup: the source TileGroup<S> of map
    ghist,      \* SpecGroup: the operations so far
    sink,       \* SpecGroup: the put calls of the last write
    cover       \* SpecCover: two triangles sharing an edge and their masks

vars == <<tile, prev, hist, src, iter, mask0, yielded, gotNone, index,
          group, gprev, gsrc, ghist, sink, cover>>

tileVars == <<tile, prev, hist, src>>
iterVars == <<iter, mask0, yielded, gotNone>>
groupVars == <<group, gprev, gsrc, ghist, sink>>

IdleTile == tile = 0 /\ prev = 0 /\ hist = <<>> /\ src = 0
IdleIter == iter = 0 /\ mask0 = {} /\ yielded = <<>> /\ gotNone = FALSE
IdleIndex == index = 0
IdleGroup == group = 0 /\ gprev = 0 /\ gsrc = 0 /\ ghist = <<>> /\ sink = <<>>
IdleCover == cover = 0

\* ----------------------------------------------------------------- inputs
\* Triangles in pixel coordinates, for a tile at pos (0, 0) with scale (1, 1).
HalfTri == [a |-> <<0, 0>>, b |-> <<8, 0>>, c |-> <<0, 8>>]
FullTri == [a |-> <<0, 0>>, b |-> <<16, 0>>, c |-> <<0, 16>>]
MissTri == [a |-> <<-16, -16>>, b |-> <<-8, -16>>, c |-> <<-16, -8>>]

\* Vertex depths in units of 1/One: 0.5, 0.25, 1.5 uniform, and (-3, 1, 1).
ZHalf == <<One \div 2, One \div 2, One \div 2>>
ZQuarter == <<One \div 4, One \div 4, One \div 4>>
ZBeyond == <<One + One \div 2, One + One \div 2, One + One \div 2>>
ZSlope == <<-3 * One, One, One>>
Depths == {ZHalf, ZQuarter, ZBeyond, ZSlope}

\* A shader: the vertex attributes of the triangle and the blend.
Shaders == {[t |-> <<1, 1, 1>>, sh |-> "replace"],
            [t |-> <<2, 2, 2>>, sh |-> "replace"],
            [t |-> <<1, 1, 1>>, sh |-> "add"]}

Draws == {[bary |-> b, z |-> z, t |-> s.t, sh |-> s.sh] :
              b \in {HalfTri, FullTri}, z \in Depths, s \in Shaders}
         \cup {[bary |-> MissTri, z |-> ZHalf, t |-> <<1, 1, 1>>, sh |-> "replace"]}

Origin == <<0, 0>>
Unit2 == <<1, 1>>

SrcTile == [depth |-> broadcast(0), color |-> [i \in LaneSet |-> i % 4]]

\* =============================================================== SpecTile
InitTile ==
    /\ \E p \in {0} :
        /\ tile = Tile_new(p)
        /\ prev = tile
        /\ hist = <<[kind |-> "new", p |-> p]>>
    /\ src = SrcTile
    /\ IdleIter /\ IdleIndex /\ IdleGroup /\ IdleCover

Ops == Len(hist) - 1

Raster ==
    /\ Ops < MaxOps
    /\ \E d \in Draws :
        LET r == Tile_raster(tile, Origin, Unit2, d.z, d.bary, d.t, d.sh)
        IN  /\ tile' = r.tile
            /\ prev' = tile
            /\ hist' = Append(hist, [kind |-> "raster", draw |-> d, calls |-> r.calls,
                                     cover |-> r.cover])
    /\ UNCHANGED <<src, iterVars, index, groupVars, cover>>

Clear ==
    /\ Ops < MaxOps
    /\ \E p \in {1} :
        /\ tile' = Tile_clear(tile, p)
        /\ prev' = tile
        /\ hist' = Append(hist, [kind |-> "clear", p |-> p])
    /\ UNCHANGED <<src, iterVars, index, groupVars, cover>>

Map ==
    /\ Ops < MaxOps
    /\ \E f \in {"inc", "inv"} :
        /\ tile' = Tile_map(tile, src, f)
        /\ prev' = tile
        /\ hist' = Append(hist, [kind |-> "map", f |-> f])
    /\ UNCHANGED <<src, iterVars, index, groupVars, cover>>

NextTile == Raster \/ Clear \/ Map

SpecTile == InitTile /\ [][NextTile]_vars


\* =============================================================== SpecIter
\* Masks: the bits lo, lo + stride, ... up to hi, for ends at the edges and
\* in the middle of the 64 bits, and the coverage mask of a triangle.
Ends == {0, 1, 7, 8, 31, 32, 62, 63}
Masks ==
    {{i \in lo .. hi : (i - lo) % stride = 0} : lo \in Ends, hi \in Ends, stride \in 1 .. MaxStride}
    \cup {TileMask_new(Origin, Unit2, HalfTri).mask}

InitIter ==
    /\ mask0 \in Masks
    /\ iter = TileMask_iter([TileMask_new(Origin, Unit2, FullTri) EXCEPT !.mask = mask0])
    /\ yielded = <<>>
    /\ gotNone = FALSE
    /\ IdleTile /\ IdleIndex /\ IdleGroup /\ IdleCover

\* One call of next().
IterNext ==
    LET r == TileMaskIter_next(iter)
    IN  /\ iter' = r.it
        /\ \/ r.item.none /\ gotNone' = TRUE /\ yielded' = yielded
           \/ ~r.item.none /\ gotNone' = gotNone /\ yielded' = Append(yielded, r.item.index)
        /\ UNCHANGED <<mask0, tileVars, index, groupVars, cover>>

NextIter == IterNext

SpecIter == InitIter /\ [][NextIter]_vars

\* C4: next() yields the set bits of the mask, each once, lowest first, and
\* returns None when, and only when, none is left; the full mask yields
\* 0, 1, ..., 63.
C4_IterExact ==
    LET ys == {yielded[k] : k \in 1 .. Len(yielded)}
    IN  /\ \A k \in 1 .. Len(yielded) - 1 : yielded[k] < yielded[k + 1]
        /\ ys \cup iter.mask = mask0
        /\ ys \cap iter.mask = {}
        /\ \A y \in ys : \A m \in iter.mask : y < m
        /\ gotNone => iter.mask = {} /\ ys = mask0 /\ Len(yielded) = Cardinality(mask0)
        /\ gotNone /\ mask0 = LaneSet => yielded = [k \in 1 .. Lanes |-> k - 1]

\* The full mask was iterated to its end.
C4_Witness == gotNone /\ mask0 = LaneSet /\ Len(yielded) = Lanes

\* ============================================================== SpecIndex
\* The iterator over `mask`, as SpecIter makes it.
IterOver(mask) == TileMask_iter([TileMask_new(Origin, Unit2, FullTri) EXCEPT !.mask = mask])

InitIndex ==
    /\ index = [via |-> "none", value |-> 0]
    /\ IdleTile /\ IdleIter /\ IdleGroup /\ IdleCover

\* TileIndex::from_xy(x, y).
FromXY ==
    /\ \E x \in 0 .. MaxCoord, y \in 0 .. MaxCoord :
           index' = [via |-> "from_xy", value |-> TileIndex_from_xy(x, y)]
    /\ UNCHANGED <<tileVars, iterVars, groupVars, cover>>

\* The public tuple constructor TileIndex(n).
FromTuple ==
    /\ \E n \in 0 .. (Lanes + MaxCoord) : index' = [via |-> "tuple", value |-> n]
    /\ UNCHANGED <<tileVars, iterVars, groupVars, cover>>

\* The TileIndex of the first item of an iterator.
FromIter ==
    /\ \E m \in Masks \ {{}} :
           index' = [via |-> "iter", value |-> TileMaskIter_next(IterOver(m)).item.index]
    /\ UNCHANGED <<tileVars, iterVars, groupVars, cover>>

NextIndex == FromXY \/ FromTuple \/ FromIter

SpecIndex == InitIndex /\ [][NextIndex]_vars

\* C9: every TileIndex built through the public interface is in [0, 64).
C9_IndexInRange == index.value \in LaneSet

\* ============================================================== SpecCover
\* The square with corner (x0, y0) and side s, cut along one diagonal into
\* the triangles A and B; e1 and e2 are the ends of the shared edge.
Cut(x0, y0, s, diag) ==
    LET p00 == <<x0, y0>>
        p10 == <<x0 + s, y0>>
        p01 == <<x0, y0 + s>>
        p11 == <<x0 + s, y0 + s>>
    IN  IF diag = "main"
        THEN [A |-> [a |-> p00, b |-> p10, c |-> p11],
              B |-> [a |-> p00, b |-> p11, c |-> p01], e1 |-> p00, e2 |-> p11]
        ELSE [A |-> [a |-> p00, b |-> p10, c |-> p01],
              B |-> [a |-> p10, b |-> p11, c |-> p01], e1 |-> p10, e2 |-> p01]

Cuts == {Cut(x0, y0, s, diag) : x0 \in 0 .. MaxOrigin, y0 \in 0 .. MaxOrigin,
                                s \in {2, 4, 8}, diag \in {"main", "anti"}}

InitCover ==
    /\ \E c \in Cuts : cover = [cut |-> c, done |-> FALSE]
    /\ IdleTile /\ IdleIter /\ IdleIndex /\ IdleGroup

\* TileMask::new for each of the two triangles over the same tile.
Cover ==
    /\ ~cover.done
    /\ cover' = [cut |-> cover.cut, done |-> TRUE,
                 maskA |-> TileMask_new(Origin, Unit2, cover.cut.A).mask,
                 maskB |-> TileMask_new(Origin, Unit2, cover.cut.B).mask]
    /\ UNCHANGED <<tileVars, iterVars, index, groupVars>>

NextCover == Cover

SpecCover == InitCover /\ [][NextCover]_vars

\* The sample point of lane i lies on the segment from e1 to e2.
OnEdge(i, e1, e2) ==
    LET p == LanePoint(Origin, Unit2, i)
    IN  /\ Cross(Sub2(p, e1), Sub2(e2, e1)) = 0
        /\ p[1] >= (IF e1[1] < e2[1] THEN e1[1] ELSE e2[1])
        /\ p[1] <= (IF e1[1] < e2[1] THEN e2[1] ELSE e1[1])
        /\ p[2] >= (IF e1[2] < e2[2] THEN e1[2] ELSE e2[2])
        /\ p[2] <= (IF e1[2] < e2[2] THEN e2[2] ELSE e1[2])

\* C6: a sample point on the edge two triangles share is inside exactly one
\* of the two coverage masks.
C6_SharedEdgeOnce ==
    cover.done =>
        \A i \in LaneSet :
            OnEdge(i, cover.cut.e1, cover.cut.e2) =>
                (i \in cover.maskA) # (i \in cover.maskB)

\* ============================================================== SpecGroup
\* Triangles over the 32x32 group at pos (0, 0) with scale (1, 1).
GroupHalfTri == [a |-> <<0, 0>>, b |-> <<32, 0>>, c |-> <<0, 32>>]
GroupFullTri == [a |-> <<0, 0>>, b |-> <<64, 0>>, c |-> <<0, 64>>]

GroupDraws == {[bary |-> GroupHalfTri, z |-> ZHalf, t |-> <<1, 1, 1>>, sh |-> "replace"],
               [bary |-> GroupFullTri, z |-> ZQuarter, t |-> <<2, 2, 2>>, sh |-> "replace"],
               [bary |-> GroupHalfTri, z |-> ZSlope, t |-> <<1, 1, 1>>, sh |-> "add"]}

WriteOrigins == {<<0, 0>>, <<32, 0>>, <<5, 7>>}

\* The source of map: a group of another pixel type with a triangle in it.
SrcGroup ==
    TileGroup_raster(TileGroup_new(3), Origin, Unit2, ZSlope, GroupHalfTri, <<2, 2, 2>>, "replace")

InitGroup ==
    /\ group = TileGroup_new(0)
    /\ gprev = group
    /\ gsrc = SrcGroup
    /\ ghist = <<[kind |-> "new", p |-> 0]>>
    /\ sink = <<>>
    /\ IdleTile /\ IdleIter /\ IdleIndex /\ IdleCover

GroupOps == Len(ghist) - 1

GroupRaster ==
    /\ GroupOps < MaxOps
    /\ \E d \in GroupDraws :
        /\ group' = TileGroup_raster(group, Origin, Unit2, d.z, d.bary, d.t, d.sh)
        /\ ghist' = Append(ghist, [kind |-> "raster", draw |-> d])
    /\ gprev' = group
    /\ UNCHANGED <<gsrc, sink, tileVars, iterVars, index, cover>>

GroupClear ==
    /\ GroupOps < MaxOps
    /\ \E p \in {1, 2} :
        /\ group' = TileGroup_clear(group, p)
        /\ ghist' = Append(ghist, [kind |-> "clear", p |-> p])
    /\ gprev' = group
    /\ UNCHANGED <<gsrc, sink, tileVars, iterVars, index, cover>>

\* write(x, y, sink) into an empty sink that records its put calls.
GroupWrite ==
    /\ GroupOps < MaxOps
    /\ \E o \in WriteOrigins :
        /\ sink' = TileGroup_write(group, o[1], o[2], <<>>)
        /\ ghist' = Append(ghist, [kind |-> "write", x |-> o[1], y |-> o[2]])
    /\ gprev' = group
    /\ UNCHANGED <<group, gsrc, tileVars, iterVars, index, cover>>

GroupMap ==
    /\ GroupOps < MaxOps
    /\ \E f \in {"inc", "inv"} :
        /\ group' = TileGroup_map(group, gsrc, f)
        /\ ghist' = Append(ghist, [kind |-> "map", f |-> f, src |-> gsrc])
    /\ gprev' = group
    /\ UNCHANGED <<gsrc, sink, tileVars, iterVars, index, cover>>

NextGroup == GroupRaster \/ GroupClear \/ GroupWrite \/ GroupMap

SpecGroup == InitGroup /\ [][NextGroup]_vars

GLast == ghist[Len(ghist)]
GroupSize == Size(GroupLevel)

\* C5: write(x, y, sink) puts GroupSize * GroupSize = 1024 times, once at
\* each coordinate of the square from (x, y), and puts the fill pixel p at
\* each when the group was just made or cleared with p.
C5_WriteOnce ==
    GLast.kind = "write" =>
        LET coords == {<<sink[k].x, sink[k].y>> : k \in 1 .. Len(sink)}
        IN  /\ Len(sink) = 1024
            /\ Len(sink) = GroupSize * GroupSize
            /\ Cardinality(coords) = Len(sink)
            /\ coords = {<<GLast.x + i, GLast.y + j>> : i \in 0 .. GroupSize - 1,
                                                         j \in 0 .. GroupSize - 1}
            /\ ghist[Len(ghist) - 1].kind \in {"new", "clear"} =>
                   \A k \in 1 .. Len(sink) : sink[k].v = ghist[Len(ghist) - 1].p

\* A group cleared to a pixel other than the initial one was written at an
\* origin other than (0, 0).
C5_Witness ==
    /\ GLast.kind = "write"
    /\ GLast.x # 0
    /\ ghist[Len(ghist) - 1].kind = "clear"
    /\ Len(sink) > 0

\* C8: map(source, f) sets every color of the group to f of the source's
\* color at the same tile and lane and leaves every depth of the group and
\* the whole source as they were.
C8_MapFrame ==
    GLast.kind = "map" =>
        /\ gsrc = GLast.src
        /\ \A a \in 1 .. 4 : \A b \in 1 .. 4 :
               /\ group.tiles[a][b].depth = gprev.tiles[a][b].depth
               /\ \A i \in LaneSet :
                      group.tiles[a][b].color[i] = mapping(GLast.f, GLast.src.tiles[a][b].color[i])

\* A map over a group a triangle was drawn in: the destination had its own
\* colors and depths.
C8_Witness ==
    /\ GLast.kind = "map"
    /\ ghist[Len(ghist) - 1].kind = "raster"
    /\ \E a \in 1 .. 4 : \E b \in 1 .. 4 : \E i \in LaneSet :
           /\ gprev.tiles[a][b].color[i] # gsrc.tiles[a][b].color[i]
           /\ gprev.tiles[a][b].depth[i] # DOne

\* ------------------------------------------------- properties of SpecTile
Last == hist[Len(hist)]
LastIsRaster == Last.kind = "raster"

\* The TileMask of the last raster call before the depth test, and the depth
\* the call's triangle has at each lane.
LastCover == Last.cover
LastDepth == InterpolatedDepth(LastCover, Last.draw.z)

\* The lanes the shader was called on by the last raster call.
Shaded == {Last.calls[k] : k \in 1 .. Len(Last.calls)}

\* The pixel the shader's fragment() returns at lane i for a draw.
FragmentAt(h, i) ==
    fragment(h.draw.sh, Interpolate(h.draw.t,
        <<One - (h.cover.u[i] + h.cover.v[i]), h.cover.u[i], h.cover.v[i]>>))

\* C1 as stated: a covered lane at or behind the near plane passes the depth
\* test iff stored depth - new depth is non-negative, so that a fragment as
\* deep as the stored depth is shaded.
C1_PassIffCloserOrEqual ==
    LastIsRaster =>
        LET cov == LastCover.mask
            dep == LastDepth
            shaded == Shaded
        IN  \A i \in cov :
                dep[i] >= -DOne => (i \in shaded <=> prev.depth[i] - dep[i] >= 0)

\* C1 as amended: a covered lane at or behind the near plane passes the depth
\* test iff new depth - stored depth is negative (the new depth is strictly
\* closer); a fragment as deep as the stored depth is not shaded and the
\* lane keeps its color and depth.
C1_PassIffStrictlyCloser ==
    LastIsRaster =>
        LET cov == LastCover.mask
            dep == LastDepth
            shaded == Shaded
        IN  \A i \in cov :
                dep[i] >= -DOne =>
                    /\ i \in shaded <=> dep[i] - prev.depth[i] < 0
                    /\ i \in shaded => tile.depth[i] = dep[i]
                    /\ dep[i] = prev.depth[i] =>
                           /\ i \notin shaded
                           /\ tile.color[i] = prev.color[i]
                           /\ tile.depth[i] = prev.depth[i]

\* A raster call with the "add" blend met a covered lane whose stored depth
\* equals the new depth, next to one it shaded.
C1_Witness ==
    /\ LastIsRaster
    /\ Last.draw.sh = "add"
    /\ LET dep == LastDepth
       IN  \E i \in LastCover.mask : dep[i] = prev.depth[i] /\ dep[i] >= -DOne
    /\ Shaded # {}

Uniform(z) == z[1] = z[2] /\ z[2] = z[3]

\* Draws A then B right after new or clear, as C2 has them.
TwoAfterFresh ==
    /\ Len(hist) >= 3
    /\ hist[Len(hist) - 2].kind \in {"new", "clear"}
    /\ hist[Len(hist) - 1].kind = "raster"
    /\ LastIsRaster
    /\ LET A == hist[Len(hist) - 1].draw
           B == Last.draw
       IN  /\ Uniform(A.z) /\ Uniform(B.z)
           /\ A.z[1] # B.z[1]
           /\ A.z[1] >= -One /\ A.z[1] < One
           /\ B.z[1] >= -One /\ B.z[1] < One
           /\ A.sh = "replace" /\ B.sh = "replace"
           /\ hist[Len(hist) - 1].cover.mask = LastCover.mask

\* C2: after two triangles of distinct uniform depths in [-1, 1) over the
\* same lanes of a fresh tile, in either order, every covered lane holds the
\* color and the depth of the closer one.
C2_OrderIndependent ==
    TwoAfterFresh =>
        LET A == hist[Len(hist) - 1]
            B == Last
            near == IF A.draw.z[1] < B.draw.z[1] THEN A ELSE B
        IN  \A i \in LastCover.mask :
                /\ tile.color[i] = FragmentAt(near, i)
                /\ tile.depth[i] = near.draw.z[1] * One

\* The closer triangle was drawn first, and in another color.
C2_Witness ==
    /\ TwoAfterFresh
    /\ hist[Len(hist) - 1].draw.z[1] < Last.draw.z[1]
    /\ hist[Len(hist) - 1].draw.t # Last.draw.t
    /\ LastCover.mask # {}

\* C3: a lane at which the interpolated depth is below -1 keeps its color and
\* its stored depth over a raster call.
C3_NearPlane ==
    LastIsRaster =>
        LET dep == LastDepth
        IN  \A i \in LaneSet :
                dep[i] < -DOne =>
                    tile.color[i] = prev.color[i] /\ tile.depth[i] = prev.depth[i]

\* A raster call shaded some lanes and met a covered one below -1.
C3_Witness ==
    /\ LastIsRaster
    /\ LET dep == LastDepth
       IN  \E i \in LastCover.mask : dep[i] < -DOne
    /\ Shaded # {}

\* C7: every stored depth lies in [-1, 1].
C7_DepthRange == \A i \in LaneSet : tile.depth[i] >= -DOne /\ tile.depth[i] <= DOne

\* A tile with a lane at depth -1 exactly, one still at 1, after a triangle
\* of depth 1.5 was offered.
C7_Witness ==
    /\ Len(hist) >= 3
    /\ \E k \in 2 .. Len(hist) : hist[k].kind = "raster" /\ hist[k].draw.z = ZBeyond
    /\ \E i \in LaneSet : tile.depth[i] = -DOne
    /\ \E i \in LaneSet : tile.depth[i] = DOne

\* The lanes that pass the coverage, depth and near-plane tests.
Pass ==
    LET dep == LastDepth
    IN  {i \in LastCover.mask : dep[i] < prev.depth[i] /\ dep[i] >= -DOne}

\* C10: raster calls the shader once on each lane that passes the three
\* tests, in ascending order, rewrites the depth of exactly those lanes, and
\* leaves every other lane; with an empty coverage mask it does nothing.
C10_RasterFrame ==
    LastIsRaster =>
        LET pass == Pass
            dep == LastDepth
            cov == LastCover
        IN  /\ \A k \in 1 .. Len(Last.calls) - 1 : Last.calls[k] < Last.calls[k + 1]
            /\ Shaded = pass
            /\ \A i \in pass :
                   /\ tile.depth[i] = dep[i]
                   /\ tile.color[i] = blend(Last.draw.sh, prev.color[i], FragmentAt(Last, i))
            /\ \A i \in LaneSet \ pass :
                   tile.depth[i] = prev.depth[i] /\ tile.color[i] = prev.color[i]
            /\ cov.mask = {} => tile = prev /\ Last.calls = <<>>

\* A raster call with the "add" blend that shaded some covered lanes and
\* rejected others.
C10_Witness ==
    /\ LastIsRaster
    /\ Last.draw.sh = "add"
    /\ LET pass == Pass IN pass # {} /\ pass # LastCover.mask
    /\ Len(hist) >= 3

=============================================================================
